---- MODULE Spec2Model ----
(***************************************************************************)
(* Model of app.py: the text-to-presentation pipeline.                     *)
(*                                                                         *)
(* A Python str is modelled as a sequence of characters, each character a  *)
(* one-character TLA+ string, so that split/strip/filter are computed      *)
(* character by character as Python computes them.  The bullet glyph       *)
(* U+2022 is written "U+2022" (one character of the model).                *)
(***************************************************************************)
EXTENDS FiniteSets, Integers, Sequences, TLC

VARIABLES
  pc,        \* position of the running call chain
  topic,     \* st.text_input "Enter your presentation topic:"
  key,       \* st.text_input "OpenAI API Key" ("" when left empty)
  style,     \* the appearance arguments handed to create_ppt
  titles,    \* list returned by generate_slide_titles / passed to create_ppt
  contents,  \* list built by main's comprehension / passed to create_ppt
  raw,       \* what the providers answered during title generation
  ui,        \* messages surfaced through st.warning / st.info / st.error / ...
  calls,     \* number of provider calls made, per provider and stage
  log,       \* one record per generate_slide_content call, in call order
  deck,      \* the slides of the Presentation create_ppt built (<<>> before)
  path,      \* the value returned by create_ppt (<<>> before)
  files,     \* the file system under generated_ppt/: path -> saved deck
  runs       \* number of create_ppt calls made so far

vars == <<pc, topic, key, style, titles, contents, raw, ui, calls, log,
          deck, path, files, runs>>

\* Python's None, where a str is expected
None == "None"

\* no deck built yet / nothing returned yet
NoDeck == <<>>

NoPath == <<>>

-----------------------------------------------------------------------------
(* Bounds of the model *)

\* longest hosted answer / local continuation in title generation, in lines
MaxLines == 6
\* longest topic handed to create_ppt in SpecPpt and SpecPath
MaxTopicLen == 2
\* most content slides handed to create_ppt in SpecPpt
MaxSlides == 2
\* largest border_width handed to create_ppt in SpecPpt
MaxBorderWidth == 1
\* most create_ppt calls in SpecPath
MaxRuns == 2

-----------------------------------------------------------------------------
(* Characters and string literals of the program *)

NL == "\n"
TAB == "\t"
BULLET == "U+2022"

Digits == {"0", "1", "2", "3", "4", "5", "6", "7", "8", "9"}

\* characters str.strip() with no argument removes
Whitespace == {" ", TAB, NL}

\* the argument of line.strip("-•1234567890. ")
TitleStripChars == {"-", BULLET, ".", " "} \cup Digits

TitlePromptHead ==
  <<"G", "e", "n", "e", "r", "a", "t", "e", " ", "5", " ", "p", "r", "o",
    "f", "e", "s", "s", "i", "o", "n", "a", "l", " ", "P", "o", "w", "e",
    "r", "P", "o", "i", "n", "t", " ", "s", "l", "i", "d", "e", " ", "t",
    "i", "t", "l", "e", "s", " ", "a", "b", "o", "u", "t", ":", " ">>

TitlePromptCue == <<NL, "1", ".">>

ContentPromptHead ==
  <<"G", "e", "n", "e", "r", "a", "t", "e", " ", "a", " ", "p", "r", "o",
    "f", "e", "s", "s", "i", "o", "n", "a", "l", " ", "P", "o", "w", "e",
    "r", "P", "o", "i", "n", "t", " ", "p", "a", "r", "a", "g", "r", "a",
    "p", "h", " ", "a", "b", "o", "u", "t", " ">>

ContentPromptCue ==
  <<" ", "(", "4", "-", "5", " ", "s", "e", "n", "t", "e", "n", "c", "e",
    "s", ")", ":">>

SENTINEL ==
  <<"(", "C", "o", "n", "t", "e", "n", "t", " ", "g", "e", "n", "e", "r",
    "a", "t", "i", "o", "n", " ", "f", "a", "i", "l", "e", "d", ")">>

OutDir ==
  <<"g", "e", "n", "e", "r", "a", "t", "e", "d", "_", "p", "p", "t", "/">>

FileSuffix ==
  <<"_", "p", "r", "e", "s", "e", "n", "t", "a", "t", "i", "o", "n", ".",
    "p", "p", "t", "x">>

-----------------------------------------------------------------------------
(* Python string operations *)

\* positions of s holding a character that is not in chars
KeptPositions(s, chars) == {i \in 1..Len(s) : s[i] \notin chars}

Lowest(S) == CHOOSE i \in S : \A j \in S : i <= j

Highest(S) == CHOOSE i \in S : \A j \in S : j <= i

\* s.lstrip(chars)
LStrip(s, chars) ==
  LET kept == KeptPositions(s, chars)
  IN IF kept = {} THEN <<>> ELSE SubSeq(s, Lowest(kept), Len(s))

\* s.rstrip(chars)
RStrip(s, chars) ==
  LET kept == KeptPositions(s, chars)
  IN IF kept = {} THEN <<>> ELSE SubSeq(s, 1, Highest(kept))

\* s.strip(chars): str.strip removes the characters from BOTH ends
Strip(s, chars) == RStrip(LStrip(s, chars), chars)

\* s.strip()
Trim(s) == Strip(s, Whitespace)

\* s.split(sep) for a one-character sep: the segments between the
\* occurrences of sep, always at least one segment
Split(s, sep) ==
  LET at == {i \in 1..Len(s) : s[i] = sep}
      n == Cardinality(at)
      cut(k) == IF k = 0 THEN 0
                ELSE IF k = n + 1 THEN Len(s) + 1
                ELSE CHOOSE i \in at : Cardinality({j \in at : j <= i}) = k
  IN [k \in 1..(n + 1) |-> SubSeq(s, cut(k - 1) + 1, cut(k) - 1)]

RECURSIVE Join(_, _)
\* sep.join(parts)
Join(parts, sep) ==
  IF parts = <<>> THEN <<>>
  ELSE IF Len(parts) = 1 THEN parts[1]
  ELSE parts[1] \o <<sep>> \o Join(Tail(parts), sep)

\* seq[:n]
Take(seq, n) == SubSeq(seq, 1, IF Len(seq) < n THEN Len(seq) ELSE n)

NonBlank(line) == Trim(line) # <<>>

NonEmpty(t) == t # <<>>

MapStrip(ls) == [i \in 1..Len(ls) |-> Strip(ls[i], TitleStripChars)]

\* [line.strip("-•1234567890. ") for line in lines if line.strip()]
StripLines(lines) == MapStrip(SelectSeq(lines, NonBlank))

\* mutant of ParseTitles: the [:5] slice forgotten
ParseTitlesNoLimit(text) == SelectSeq(StripLines(Split(text, NL)), NonEmpty)

\* lines 34-36 and, identically, lines 51-52:
\*   titles = [line.strip(...) for line in text.split("\n") if line.strip()]
\*   [t for t in titles if t][:5]
ParseTitles(text) == Take(SelectSeq(StripLines(Split(text, NL)), NonEmpty), 5)

-----------------------------------------------------------------------------
(* The local backend *)

\* generator(prompt, ...)[0]['generated_text']: the text-generation pipeline
\* returns the prompt followed by the newly generated tokens
LocalGenerate(prompt, continuation) == prompt \o continuation

\* f"Generate 5 professional PowerPoint slide titles about: {topic}\n1."
TitlePrompt(t) == TitlePromptHead \o t \o TitlePromptCue

\* fallback_titles(), for the continuation the model generates
FallbackTitles(t, continuation) ==
  ParseTitles(LocalGenerate(TitlePrompt(t), continuation))

-----------------------------------------------------------------------------
(* generate_slide_content *)

HostedError == [kind |-> "error", text |-> <<>>]

\* response.choices[0].message.content is None
HostedNone == [kind |-> "none", text |-> <<>>]

HostedText(t) == [kind |-> "text", text |-> t]

\* f"Generate a professional PowerPoint paragraph about {title} (4-5 sentences):"
ContentPrompt(title) == ContentPromptHead \o title \o ContentPromptCue

\* seq[-1]
Last(seq) == seq[Len(seq)]

\* lines 82-91: result.split(":")[-1].strip()
LocalContent(title, continuation) ==
  Trim(Last(Split(LocalGenerate(ContentPrompt(title), continuation), ":")))

\* lines 68-80 and 92-94: the hosted branch; a raised error, or the
\* AttributeError of None.strip(), is caught and mapped to the sentinel
HostedContent(outcome) ==
  IF outcome.kind = "text"
    THEN [text |-> Trim(outcome.text), failed |-> FALSE]
    ELSE [text |-> SENTINEL, failed |-> TRUE]

\* generate_slide_content(title, openai_api_key); outcome is what the
\* selected backend answers (for the local backend, the generated tokens)
GenerateSlideContent(title, k, outcome) ==
  IF k # ""
    THEN HostedContent(outcome)
    ELSE [text |-> LocalContent(title, outcome.text), failed |-> FALSE]

-----------------------------------------------------------------------------
(* create_ppt *)

Letters ==
  {"a", "b", "c", "d", "e", "f", "g", "h", "i", "j", "k", "l", "m", "n",
   "o", "p", "q", "r", "s", "t", "u", "v", "w", "x", "y", "z",
   "A", "B", "C", "D", "E", "F", "G", "H", "I", "J", "K", "L", "M", "N",
   "O", "P", "Q", "R", "S", "T", "U", "V", "W", "X", "Y", "Z"}

\* c.isalnum()
IsAlnum(c) == c \in Letters \cup Digits

\* mutant of KeepInFileName: the (" ", "_", "-") alternative forgotten
KeepInFileNameAlnumOnly(c) == IsAlnum(c)

\* c.isalnum() or c in (" ", "_", "-")
KeepInFileName(c) == IsAlnum(c) \/ c \in {" ", "_", "-"}

\* "".join(c for c in topic if ...)
SafeTopic(t) == SelectSeq(t, KeepInFileName)

\* f"generated_ppt/{safe_topic}_presentation.pptx"
OutputPath(t) == OutDir \o SafeTopic(t) \o FileSuffix

\* RGBColor(int(c[1:3], 16), int(c[3:5], 16), int(c[5:7], 16))
RGBColor(c) == [rgb |-> c]

NoFont == [applied |-> FALSE, size |-> 0, color |-> RGBColor("")]

\* the loops over paragraphs and runs: a text frame holding "" has no run
FontOf(text, size, color) ==
  IF text = <<>>
    THEN NoFont
    ELSE [applied |-> TRUE, size |-> size, color |-> RGBColor(color)]

NoBorder == [applied |-> FALSE, color |-> RGBColor(""), width |-> 0]

\* mutant of BorderRequested: the width test forgotten
BorderRequestedColorOnly(border_color, border_width) ==
  border_color # None /\ border_color # ""

\* line 136: if border_color and border_width > 0
BorderRequested(border_color, border_width) ==
  border_color # None /\ border_color # "" /\ border_width > 0

\* lines 137-140
BorderOf(st) ==
  IF BorderRequested(st.border_color, st.border_width)
    THEN [applied |-> TRUE, color |-> RGBColor(st.border_color),
          width |-> st.border_width]
    ELSE NoBorder

\* lines 100-111; the subtitle placeholder (body) is left empty
TitleSlide(t, st) ==
  [layout |-> 0, title |-> t, body |-> <<>>, bg |-> RGBColor(st.bg_color),
   titleFont |-> FontOf(t, st.title_size, st.title_color),
   bodyFont |-> NoFont, border |-> NoBorder, picture |-> FALSE]

\* lines 115-148, one pass of the loop
ContentSlide(title, content, st, image) ==
  [layout |-> 1, title |-> title, body |-> content,
   bg |-> RGBColor(st.bg_color),
   titleFont |-> FontOf(title, st.title_size, st.title_color),
   bodyFont |-> FontOf(content, st.content_size, st.content_color),
   border |-> BorderOf(st), picture |-> image]

Min(a, b) == IF a < b THEN a ELSE b

\* mutant of ContentSlides: the last pair is not turned into a slide
ContentSlidesDropLast(ts, cs, st, image) ==
  [i \in 1..(Min(Len(ts), Len(cs)) - 1) |->
     ContentSlide(ts[i], cs[i], st, image)]

\* for title, content in zip(titles, contents): stops at the shorter list
ContentSlides(ts, cs, st, image) ==
  [i \in 1..Min(Len(ts), Len(cs)) |-> ContentSlide(ts[i], cs[i], st, image)]

\* the Presentation create_ppt saves
BuildDeck(t, ts, cs, st, image) ==
  <<TitleSlide(t, st)>> \o ContentSlides(ts, cs, st, image)

\* prs.save(path): creates the file or replaces the one already there
SaveFile(fs, p, d) ==
  [q \in DOMAIN fs \cup {p} |-> IF q = p THEN d ELSE fs[q]]

\* lines 169-175: the widgets' default values
DefaultStyle ==
  [bg_color |-> "#FFFFFF", title_color |-> "#000000",
   content_color |-> "#000000", title_size |-> 30, content_size |-> 16,
   border_color |-> "#000000", border_width |-> 0]

-----------------------------------------------------------------------------
(* Inputs of the pipeline *)

\* all sequences over S of length at most n
RECURSIVE SeqsUpTo(_, _)
SeqsUpTo(S, n) ==
  IF n = 0 THEN {<<>>}
  ELSE LET shorter == SeqsUpTo(S, n - 1)
       IN shorter \cup {Append(q, x) : q \in shorter, x \in S}

PipelineTopics == {<<>>, <<"a">>, <<"A", "I", " ", "2">>}

Keys == {"", "sk-key"}

\* lines a chat answer is made of: blank, clean and ending in a digit,
\* enumerated, and a bare bullet
HostedLineSamples == {<<>>, <<"a", "2">>, <<"1", ".", " ", "b">>, <<"-", " ">>}

\* lines the local continuation is made of
LocalLineSamples == {<<>>, <<" ", "c">>}

HostedTitleTexts == {Join(ls, NL) : ls \in SeqsUpTo(HostedLineSamples, MaxLines)}

LocalTitleTexts == {Join(ls, NL) : ls \in SeqsUpTo(LocalLineSamples, MaxLines)}

HostedTitleOutcomes ==
  {HostedError, HostedNone} \cup {HostedText(t) : t \in HostedTitleTexts}

HostedContentOutcomes ==
  {HostedError, HostedNone, HostedText(<<" ">>), HostedText(<<"o", "k", NL>>)}

LocalContentOutcomes ==
  {HostedText(<<>>), HostedText(<<" ", "x">>), HostedText(<<" ", "x", ":", " ", "y">>)}

ContentOutcomes(k) ==
  IF k # "" THEN HostedContentOutcomes ELSE LocalContentOutcomes

NoCalls ==
  [hostedTitles |-> 0, localTitles |-> 0, hostedContent |-> 0,
   localContent |-> 0]

NoRaw ==
  [hosted |-> "not_called", hostedText |-> <<>>, local |-> "not_called",
   localResult |-> <<>>]

Bump(c, f) == [c EXCEPT ![f] = @ + 1]

\* what a title list is recorded as in raw
Yield(ts) == IF ts = <<>> THEN "empty" ELSE "ok"

EmptyFiles == [q \in {} |-> NoDeck]

-----------------------------------------------------------------------------
(* main: one press of "Generate Presentation" *)

Init ==
  /\ pc = "clicked"
  /\ topic \in PipelineTopics
  /\ key \in Keys
  /\ style = DefaultStyle
  /\ titles = <<>>
  /\ contents = <<>>
  /\ raw = NoRaw
  /\ ui = {}
  /\ calls = NoCalls
  /\ log = <<>>
  /\ deck = NoDeck
  /\ path = NoPath
  /\ files = EmptyFiles
  /\ runs = 0

\* mutant of MainCheckTopic: the empty-topic return forgotten
MainCheckTopicNoReturn ==
  /\ pc = "clicked"
  /\ ui' = ui \cup {"info: Generating slides with AI..."}
  /\ pc' = "titles"
  /\ UNCHANGED <<topic, key, style, titles, contents, raw, calls, log, deck,
                 path, files, runs>>

\* lines 177-180
MainCheckTopic ==
  /\ pc = "clicked"
  /\ IF topic = <<>>
       THEN /\ ui' = ui \cup {"warning: Please enter a topic."}
            /\ pc' = "done"
       ELSE /\ ui' = ui \cup {"info: Generating slides with AI..."}
            /\ pc' = "titles"
  /\ UNCHANGED <<topic, key, style, titles, contents, raw, calls, log, deck,
                 path, files, runs>>

\* mutant of HostedTitlesFailed: the except branch returns no titles
\* instead of calling fallback_titles()
HostedTitlesFailedNoFallback(kind) ==
  /\ ui' = ui \cup {"warning: OpenAI error. Using fallback model."}
  /\ raw' = [raw EXCEPT !.hosted = kind]
  /\ pc' = "check"
  /\ titles' = <<>>

\* lines 57-59: the except branch
HostedTitlesFailed(kind) ==
  /\ ui' = ui \cup {"warning: OpenAI error. Using fallback model."}
  /\ raw' = [raw EXCEPT !.hosted = kind]
  /\ pc' = "fallback"
  /\ UNCHANGED titles

\* lines 50-56
HostedTitlesAnswered(text) ==
  LET ts == ParseTitles(text)
  IN IF ts = <<>>
       THEN /\ ui' = ui \cup
                  {"warning: OpenAI did not return any titles, using fallback."}
            /\ raw' = [raw EXCEPT !.hosted = "empty"]
            /\ pc' = "fallback"
            /\ UNCHANGED titles
       ELSE /\ titles' = ts
            /\ raw' = [raw EXCEPT !.hosted = "ok", !.hostedText = text]
            /\ pc' = "check"
            /\ UNCHANGED ui

\* lines 37-59: generate_slide_titles with a credential
HostedTitles ==
  /\ pc = "titles"
  /\ key # ""
  /\ \E outcome \in HostedTitleOutcomes :
       IF outcome.kind = "text"
         THEN HostedTitlesAnswered(outcome.text)
         ELSE HostedTitlesFailed(outcome.kind)
  /\ calls' = Bump(calls, "hostedTitles")
  /\ UNCHANGED <<topic, key, style, contents, log, deck, path, files, runs>>

\* lines 25-36, entered from line 55, 59 or 61
LocalTitles ==
  /\ \/ pc = "fallback"
     \/ pc = "titles" /\ key = ""
  /\ \E continuation \in LocalTitleTexts :
       /\ titles' = FallbackTitles(topic, continuation)
       /\ raw' = [raw EXCEPT !.local = Yield(titles'),
                            !.localResult = titles']
  /\ calls' = Bump(calls, "localTitles")
  /\ pc' = "check"
  /\ UNCHANGED <<topic, key, style, contents, ui, log, deck, path, files,
                 runs>>

\* lines 182-184
MainCheckTitles ==
  /\ pc = "check"
  /\ IF Len(titles) < 1
       THEN /\ ui' = ui \cup {"error: Failed to generate slide titles."}
            /\ pc' = "done"
       ELSE /\ pc' = "content"
            /\ UNCHANGED ui
  /\ raw' = [raw EXCEPT !.hostedText = <<>>]
  /\ UNCHANGED <<topic, key, style, titles, contents, calls, log, deck, path,
                 files, runs>>

\* mutant of AppendContent: a failed generation is left out of the list
AppendContentSkipFailed(cs, r) == IF r.failed THEN cs ELSE Append(cs, r.text)

\* line 185: the comprehension appends each call's return value
AppendContent(cs, r) == Append(cs, r.text)

\* line 185, one element of the comprehension
MainContent ==
  /\ pc = "content"
  /\ Len(contents) < Len(titles)
  /\ LET title == titles[Len(contents) + 1]
     IN \E outcome \in ContentOutcomes(key) :
          LET r == GenerateSlideContent(title, key, outcome)
          IN /\ contents' = AppendContent(contents, r)
             /\ log' = Append(log, [title |-> title, result |-> r.text,
                                    failed |-> r.failed])
             /\ ui' = IF r.failed
                        THEN ui \cup {"error: Error generating content"}
                        ELSE ui
  /\ calls' = Bump(calls, IF key # "" THEN "hostedContent" ELSE "localContent")
  /\ UNCHANGED <<pc, topic, key, style, titles, raw, deck, path, files, runs>>

\* lines 186-188
MainAssemble ==
  /\ pc = "content"
  /\ Len(contents) = Len(titles)
  /\ \E image \in BOOLEAN :
       deck' = BuildDeck(topic, titles, contents, style, image)
  /\ path' = OutputPath(topic)
  /\ files' = SaveFile(files, path', deck')
  /\ runs' = runs + 1
  /\ ui' = ui \cup {"success: Presentation created!", "download link"}
  /\ pc' = "done"
  /\ UNCHANGED <<topic, key, style, titles, contents, raw, calls, log>>

Next ==
  \/ MainCheckTopic
  \/ HostedTitles
  \/ LocalTitles
  \/ MainCheckTitles
  \/ MainContent
  \/ MainAssemble

Spec == Init /\ [][Next]_vars

-----------------------------------------------------------------------------
(* create_ppt called on its own *)

ExampleTopic == <<"A", "I", "/", "M", "L", ":", " ", "2", "0", "2", "4", "!">>

PptTopicSamples == {ExampleTopic, <<"a", "_", "-", "2">>}

PptTopics == PptTopicSamples \cup {<<>>}

SlideTitleSamples == {<<"T">>, <<"U">>}

SlideTextSamples == {<<>>, <<"x">>, SENTINEL}

\* title and content lists of the same length, as main builds them
PptLists ==
  {pair \in SeqsUpTo(SlideTitleSamples, MaxSlides)
              \X SeqsUpTo(SlideTextSamples, MaxSlides) :
     Len(pair[1]) = Len(pair[2])}

\* border_color=None is the parameter's default, "#..." what a caller passes
PptStyles ==
  {[DefaultStyle EXCEPT !.border_color = c, !.border_width = w] :
     c \in {None, "", "#FF0000"}, w \in (-1)..MaxBorderWidth}

InitCall ==
  /\ pc = "ppt_call"
  /\ key = ""
  /\ raw = NoRaw
  /\ ui = {}
  /\ calls = NoCalls
  /\ log = <<>>
  /\ deck = NoDeck
  /\ path = NoPath
  /\ files = EmptyFiles
  /\ runs = 0

InitPpt ==
  /\ InitCall
  /\ topic \in PptTopics
  /\ \E pair \in PptLists : titles = pair[1] /\ contents = pair[2]
  /\ style \in PptStyles

\* create_ppt(topic, titles, contents, ...), lines 96-153
PptCall ==
  /\ pc = "ppt_call"
  /\ \E image \in BOOLEAN :
       deck' = BuildDeck(topic, titles, contents, style, image)
  /\ path' = OutputPath(topic)
  /\ files' = SaveFile(files, path', deck')
  /\ runs' = runs + 1
  /\ pc' = "ppt_returned"
  /\ UNCHANGED <<topic, key, style, titles, contents, raw, ui, calls, log>>

NextPpt == PptCall

SpecPpt == InitPpt /\ [][NextPpt]_vars

\* characters topics are made of when every short topic is tried
PathChars == {"a", "/"}

PathTopics == SeqsUpTo(PathChars, MaxTopicLen) \cup PptTopicSamples

InitPath ==
  /\ InitCall
  /\ topic \in PathTopics
  /\ titles = <<<<"T">>>>
  /\ contents = <<<<"x">>>>
  /\ style = DefaultStyle

\* the next run: another topic, or the same one again
PathAgain ==
  /\ pc = "ppt_returned"
  /\ runs < MaxRuns
  /\ topic' \in PathTopics
  /\ pc' = "ppt_call"
  /\ UNCHANGED <<key, style, titles, contents, raw, ui, calls, log, deck,
                 path, files, runs>>

NextPath == PptCall \/ PathAgain

SpecPath == InitPath /\ [][NextPath]_vars

-----------------------------------------------------------------------------
(* Properties *)

\* whether sub occurs in s as a contiguous substring
Contains(s, sub) ==
  \E k \in 1..(Len(s) - Len(sub) + 1) : SubSeq(s, k, k + Len(sub) - 1) = sub

HostedFailed == raw.hosted \in {"error", "none", "empty"}

Persisted == path # NoPath /\ path \in DOMAIN files /\ files[path] = deck

\* C1: generate_slide_titles returns a list of at most 5 non-empty strings,
\* and the list is empty only when the fallback path was run and
\* gave no usable line and the hosted path, if it was attempted, gave none
\* either.
C1_TitlesBounded ==
  pc = "check" =>
    /\ Len(titles) <= 5
    /\ \A i \in 1..Len(titles) : titles[i] # <<>>
    /\ titles = <<>> => raw.local = "empty" /\ raw.hosted # "ok"

C1_Witness ==
  /\ pc = "check"
  /\ Len(titles) = 5
  /\ raw.hosted = "empty"
  /\ raw.local = "ok"
  /\ calls.localTitles = 1

\* C2 (as claimed): every value generate_slide_content returns is a non-empty
\* paragraph or exactly the sentinel, never the empty string.
C2_NeverEmpty ==
  \A i \in 1..Len(log) :
    /\ log[i].result # <<>>
    /\ log[i].failed => log[i].result = SENTINEL

\* the non-blank lines of the hosted answer
C4_Lines == SelectSeq(Split(raw.hostedText, NL), NonBlank)

\* a line with no leading bullet, numeral or enumeration punctuation
C4_Clean(line) == Head(Trim(line)) \notin TitleStripChars

C4_Trimmed(ls) == [i \in 1..Len(ls) |-> Trim(ls[i])]

\* C4 (as claimed): when every non-blank line of the answer is clean, the
\* titles are the whitespace-trimmed lines (the first 5 of them), also for a
\* line that ends in a digit, a period or a hyphen.
C4_CleanLinesUnchanged ==
  (/\ pc = "check"
   /\ raw.hosted = "ok"
   /\ \A i \in 1..Len(C4_Lines) : C4_Clean(C4_Lines[i]))
  => titles = Take(C4_Trimmed(C4_Lines), 5)

\* C5: a deck is built and a file written only if the topic is non-empty and
\* title generation returned a non-empty list; with an empty topic no
\* provider is called, the warning is shown and nothing is written; with an
\* empty title list the error is shown, no content is generated and nothing
\* is written.
C5_ArtifactOnlyWithTitles ==
  /\ (deck # NoDeck \/ files # EmptyFiles \/ runs > 0)
       => topic # <<>> /\ titles # <<>>
  /\ topic = <<>>
       => /\ calls = NoCalls
          /\ files = EmptyFiles
          /\ pc = "done" => "warning: Please enter a topic." \in ui
  /\ (pc \in {"content", "done"} /\ topic # <<>> /\ titles = <<>>)
       => /\ pc = "done"
          /\ "error: Failed to generate slide titles." \in ui
          /\ calls.hostedContent = 0 /\ calls.localContent = 0
          /\ files = EmptyFiles

C5_Witness ==
  /\ pc = "done"
  /\ topic = <<>>
  /\ "warning: Please enter a topic." \in ui
  /\ calls = NoCalls
  /\ files = EmptyFiles

\* the guards of main's steps: the run is at its end or can take a step
C6_NotStuck ==
  \/ pc = "done"
  \/ pc \in {"fallback", "check"}
  \/ pc = "content" /\ Len(contents) <= Len(titles)

\* C6: once the hosted title call has failed or yielded no title, a warning
\* has been surfaced, the hosted title call is never made again, the
\* fallback is called exactly once and its result is the returned title
\* list, the run is never stuck before its end, and at its end there is a
\* content for every title and the deck is saved.
C6_FallbackCompletes ==
  HostedFailed =>
    /\ key # ""
    /\ calls.hostedTitles = 1
    /\ \/ "warning: OpenAI error. Using fallback model." \in ui
       \/ "warning: OpenAI did not return any titles, using fallback." \in ui
    /\ pc = "fallback" => calls.localTitles = 0
    /\ pc # "fallback"
         => /\ calls.localTitles = 1
            /\ titles = raw.localResult
    /\ C6_NotStuck
    /\ pc = "done"
         => /\ Len(contents) = Len(titles)
            /\ Len(titles) >= 1
            /\ Persisted
            /\ "success: Presentation created!" \in ui

C6_Witness ==
  /\ pc = "done"
  /\ raw.hosted = "error"
  /\ Persisted
  /\ Len(deck) = 1 + Len(titles)

C7_Aligned ==
  /\ Len(contents) <= Len(titles)
  /\ Len(log) = Len(contents)
  /\ calls.hostedContent + calls.localContent = Len(contents)
  /\ \A i \in 1..Len(log) :
       /\ log[i].title = titles[i]
       /\ log[i].result = contents[i]
       /\ log[i].failed => contents[i] = SENTINEL
  /\ Len(contents) > 0 => pc \in {"content", "done"}
  /\ pc = "content" => deck = NoDeck
  /\ deck # NoDeck
       => /\ Len(contents) = Len(titles)
          /\ Len(deck) = 1 + Len(titles)
          /\ \A i \in 1..Len(titles) : deck[i + 1].body = contents[i]
          /\ Persisted

\* a step keeps the titles and every content already generated, and adds at
\* most one content
C7_Step ==
  /\ pc \in {"content", "done"} => titles' = titles
  /\ Len(contents') <= Len(contents) + 1
  /\ \A i \in 1..Len(contents) :
       i <= Len(contents') /\ contents'[i] = contents[i]

\* C7: contents are generated one title at a time, in index order, after
\* title generation and before assembly; contents[i] is what was generated
\* for titles[i]; a failed generation puts the sentinel at its index and
\* changes neither the length nor the other entries; every deck assembled
\* has one content per title and is saved.
C7_ContentsFollowTitles == []C7_Aligned /\ [][C7_Step]_vars

C7_Witness ==
  /\ pc = "done"
  /\ Persisted
  /\ Len(log) >= 3
  /\ log[2].failed
  /\ ~log[1].failed
  /\ ~log[3].failed

C10_PromptLine == TitlePromptHead \o topic

\* C10 (as claimed): no title of the fallback path is the prompt line, raw,
\* trimmed or normalized, and no paragraph of the local content path
\* contains the prompt.
C10_EchoStripped ==
  /\ (pc = "check" /\ raw.local # "not_called")
       => \A i \in 1..Len(titles) :
            titles[i] \notin {C10_PromptLine, Trim(C10_PromptLine),
                              Strip(C10_PromptLine, TitleStripChars)}
  /\ key = ""
       => \A i \in 1..Len(log) :
            ~Contains(log[i].result, ContentPrompt(log[i].title))

-----------------------------------------------------------------------------
(* Properties of create_ppt *)

\* C3: the deck has 1 + len(titles) slides, slide 0 carries the topic, and
\* slide i+1 carries titles[i] as title and contents[i] as body.
C3_DeckMatchesLists ==
  pc = "ppt_returned" =>
    /\ Len(deck) = 1 + Len(titles)
    /\ deck[1].title = topic
    /\ \A i \in 1..Len(titles) :
         /\ deck[i + 1].title = titles[i]
         /\ deck[i + 1].body = contents[i]

C3_Witness ==
  /\ pc = "ppt_returned"
  /\ Len(titles) >= 2
  /\ titles[1] # titles[2]
  /\ contents[2] = SENTINEL
  /\ Len(deck) = 3

C8_Allowed == Letters \cup Digits \cup {" ", "_", "-"}

RECURSIVE C8_Filtered(_)
C8_Filtered(t) ==
  IF t = <<>> THEN <<>>
  ELSE IF Head(t) \in C8_Allowed THEN <<Head(t)>> \o C8_Filtered(Tail(t))
  ELSE C8_Filtered(Tail(t))

C8_PathOf(t) == OutDir \o C8_Filtered(t) \o FileSuffix

C8_ExampleSafe == <<"A", "I", "M", "L", " ", "2", "0", "2", "4">>

C8_State ==
  /\ pc = "ppt_returned"
       => /\ path = C8_PathOf(topic)
          /\ topic = ExampleTopic
               => path = OutDir \o C8_ExampleSafe \o FileSuffix
          /\ files[path] = deck
  /\ \A p \in DOMAIN files : p = C8_PathOf(files[p][1].title)
  /\ Cardinality(DOMAIN files) <= runs

\* a call whose topic was saved before writes the same path again and
\* replaces that file: no file is added
C8_Overwrite ==
  (/\ pc = "ppt_call"
   /\ pc' = "ppt_returned"
   /\ \E p \in DOMAIN files : files[p][1].title = topic)
  => /\ DOMAIN files' = DOMAIN files
     /\ files'[path'] = deck'
     /\ \A q \in DOMAIN files : q # path' => files'[q] = files[q]

\* C8: the returned path is generated_ppt/<s>_presentation.pptx with s the
\* topic's letters, digits, spaces, underscores and hyphens in their order
\* ("AI/ML: 2024!" gives "AIML 2024"); the path depends on the topic only,
\* and a second run with the same topic replaces the first run's file.
C8_PathFromTopic == []C8_State /\ [][C8_Overwrite]_vars

C8_Witness ==
  /\ pc = "ppt_returned"
  /\ runs = 2
  /\ topic = ExampleTopic
  /\ Cardinality(DOMAIN files) = 1
  /\ files[path] = deck

\* C9: with border_width <= 0 no content slide has a border, whatever
\* border_color is; a slide has a border only when border_color is set and
\* border_width > 0.
C9_NoBorderWithoutWidth ==
  pc = "ppt_returned" =>
    \A i \in 2..Len(deck) :
      /\ style.border_width <= 0 => ~deck[i].border.applied
      /\ deck[i].border.applied
           => /\ style.border_color \notin {None, ""}
              /\ style.border_width > 0

C9_Witness ==
  /\ pc = "ppt_returned"
  /\ style.border_width <= 0
  /\ style.border_color = "#FF0000"
  /\ Len(deck) >= 2
  /\ ~deck[2].border.applied

====
